---- MODULE Spec2Model ----
(***************************************************************************)
(* A model of MLStudio's training core: the gradient-descent optimizers    *)
(* (supervised/core/optimizers.py), the gradient scaler and the stateless  *)
(* data utilities (utils/data_manager.py), and the logistic prediction     *)
(* (supervised/core/applications.py).                                      *)
(*                                                                         *)
(* Numbers.  The optimizers compute in floating point.  Here a float is a  *)
(* fixed-point integer: the integer a stands for a / Scale, products and   *)
(* quotients are rounded to the nearest unit, and the square root is the   *)
(* integer square root.  Arrays are 1-d vectors (sequences) of the         *)
(* instance's dimension dim; a Python scalar 0 that a constructor stores   *)
(* is the zero vector it broadcasts to.                                    *)
(***************************************************************************)
EXTENDS Integers, Sequences, FiniteSets, TLC

VARIABLES
    opt,      \* the optimizer instance: its kind, hyperparameters and state
    dim,      \* the length of theta the instance is used with
    ncalls,   \* how many calls were made on the instance
    last,     \* the last call: its arguments and what came of it
    gs,       \* the GradientScaler instance
    nops,     \* how many operations were made on the scaler
    gsLast,   \* the last scaler operation: its argument and what came of it
    fc        \* a call of a stateless function: its arguments and what came of it

vars == <<opt, dim, ncalls, last, gs, nops, gsLast, fc>>
optVars == <<opt, dim, ncalls, last>>
gsVars == <<gs, nops, gsLast>>

\* No stateless function is being called.
FcIdle == fc = [fn |-> "none"]

(***************************************************************************)
(* Bounds of the model.                                                    *)
(***************************************************************************)
Scale == 10
MaxCalls == 2

(***************************************************************************)
(* Fixed-point arithmetic.                                                 *)
(***************************************************************************)
Abs(a) == IF a < 0 THEN -a ELSE a

Sgn(a) == IF a < 0 THEN -1 ELSE IF a = 0 THEN 0 ELSE 1

\* The fixed-point value of the decimal literal num/den (0.9 is Lit(9, 10)).
Lit(num, den) == (num * Scale) \div den

\* a * b, rounded to the nearest unit
FMul(a, b) == Sgn(a * b) * ((2 * Abs(a * b) + Scale) \div (2 * Scale))

\* numpy's a / 0 is inf (nan for 0 / 0) with a warning, not an exception
Inf == 2 ^ 30

\* a / b, rounded to the nearest unit
FDiv(a, b) ==
    IF b = 0 THEN Sgn(a) * Inf
    ELSE Sgn(a) * Sgn(b) * ((2 * Abs(a) * Scale + Abs(b)) \div (2 * Abs(b)))

RECURSIVE IsqrtBetween(_, _, _)
\* the largest r in lo..hi with r * r <= n
IsqrtBetween(n, lo, hi) ==
    IF lo >= hi THEN lo
    ELSE LET mid == (lo + hi + 1) \div 2
         IN  IF mid * mid <= n THEN IsqrtBetween(n, mid, hi)
             ELSE IsqrtBetween(n, lo, mid - 1)

\* np.sqrt(a) for a >= 0
FSqrt(a) == IsqrtBetween(a * Scale, 0, a * Scale)

(***************************************************************************)
(* Vectors and matrices (numpy's elementwise operations and broadcasting). *)
(***************************************************************************)
Zeros(n) == [i \in 1..n |-> 0]

VAdd(x, y) == [i \in 1..Len(x) |-> x[i] + y[i]]

VSub(x, y) == [i \in 1..Len(x) |-> x[i] - y[i]]

\* scalar * vector
VScale(c, x) == [i \in 1..Len(x) |-> FMul(c, x[i])]

\* vector * vector, elementwise
VMul(x, y) == [i \in 1..Len(x) |-> FMul(x[i], y[i])]

\* np.square
VSquare(x) == [i \in 1..Len(x) |-> FMul(x[i], x[i])]

\* np.sqrt(x + c) for a scalar c
VSqrtPlus(x, c) == [i \in 1..Len(x) |-> FSqrt(x[i] + c)]

\* scalar / vector
SDivV(c, x) == [i \in 1..Len(x) |-> FDiv(c, x[i])]

\* vector / vector, elementwise
VDiv(x, y) == [i \in 1..Len(x) |-> FDiv(x[i], y[i])]

\* vector + scalar
VPlus(x, c) == [i \in 1..Len(x) |-> x[i] + c]

RECURSIVE DotUpTo(_, _, _)
DotUpTo(x, y, n) == IF n = 0 THEN 0 ELSE DotUpTo(x, y, n - 1) + FMul(x[n], y[n])

\* x.dot(y) of two vectors: a scalar
Dot(x, y) == DotUpTo(x, y, Len(x))

\* np.diag of a vector: the square matrix with the vector on its diagonal
Diag(x) == [i \in 1..Len(x) |-> [j \in 1..Len(x) |-> IF i = j THEN x[i] ELSE 0]]

Range(s) == {s[i] : i \in DOMAIN s}

MatrixEntries(m) == UNION {Range(m[i]) : i \in DOMAIN m}

(***************************************************************************)
(* The caller's inputs to a call.                                          *)
(***************************************************************************)
\* **kwargs: a set of <<keyword, value>> pairs
NoKw == {}

Contexts == {NoKw, {<<"offset", Scale>>}}

KwGet(kw, key, default) ==
    IF \E p \in kw : p[1] = key THEN (CHOOSE p \in kw : p[1] = key)[2] ELSE default

\* The gradient functions callers pass: total functions of theta and **context.
GradFns == {"zero", "affine"}

\* gradient(theta, **kw)
GradFn(gf, theta, kw) ==
    IF gf = "zero" THEN Zeros(Len(theta))
    ELSE VPlus(theta, KwGet(kw, "offset", 0))

\* the learning rates callers pass: negative, zero and positive (0.5)
LearningRates == {-Scale, 0, Scale \div 2}

ThetaVals == {0, Scale}

Thetas(n) == [1..n -> ThetaVals]

\* the lengths of theta instances are used with
Dims == {1, 2}

(***************************************************************************)
(* Construction.                                                           *)
(***************************************************************************)
Kinds == {"Classic", "Momentum", "Nesterov", "Adagrad", "Adadelta", "RMSprop",
          "Adam", "AdaMax", "Nadam", "AMSGrad"}

\* the optimizers that keep a step counter t
TKinds == {"Adam", "AdaMax", "Nadam", "AMSGrad"}

\* the decay rates instances are constructed with (the default is 0.9)
Gammas == {Lit(9, 10), Lit(5, 10)}

\* the epsilons instances are constructed with: positive, as the defaults are
Epsilons == {1}

NewOpt(kind, gamma, epsilon, n) ==
    CASE kind = "Classic"  -> [kind |-> kind]
      [] kind = "Momentum" -> [kind |-> kind, gamma |-> gamma, velocity |-> Zeros(n)]
      [] kind = "Nesterov" -> [kind |-> kind, gamma |-> gamma, velocity |-> Zeros(n)]
      [] kind = "Adagrad"  -> [kind |-> kind, epsilon |-> epsilon, gradients |-> Zeros(n)]
      [] kind = "Adadelta" -> [kind |-> kind, gamma |-> gamma, epsilon |-> epsilon,
                               avg_sqr_gradient |-> Zeros(n),
                               avg_sqr_delta_theta |-> Zeros(n)]
      [] kind = "RMSprop"  -> [kind |-> kind, gamma |-> gamma, epsilon |-> epsilon,
                               avg_sqr_gradient |-> Zeros(n),
                               avg_sqr_delta_theta |-> Zeros(n)]
      [] kind = "Adam"     -> [kind |-> kind, beta_one |-> Lit(9, 10),
                               beta_two |-> Lit(999, 1000), epsilon |-> epsilon,
                               t |-> 0, m |-> Zeros(n), v |-> Zeros(n)]
      [] kind = "AdaMax"   -> [kind |-> kind, beta_one |-> Lit(9, 10),
                               beta_two |-> Lit(999, 1000),
                               t |-> 0, m |-> Zeros(n), v |-> Zeros(n)]
      [] kind = "Nadam"    -> [kind |-> kind, beta_one |-> Lit(9, 10), epsilon |-> epsilon,
                               t |-> 0, m |-> Zeros(n), v |-> Zeros(n)]
      [] kind = "AMSGrad"  -> [kind |-> kind, beta_one |-> Lit(9, 10), epsilon |-> epsilon,
                               t |-> 0, m |-> Zeros(n), v |-> Zeros(n), v_hat |-> Zeros(n)]

(***************************************************************************)
(* What a call comes to: the instance afterwards, "ok" or the exception,   *)
(* the returned pair, the arguments of every gradient evaluation, and the  *)
(* divisors the update divided by.                                         *)
(***************************************************************************)
GradCall(theta, kw) == [theta |-> theta, kw |-> kw]

Return(st, theta, grad, gfArgs, divisors) ==
    [st |-> st, status |-> "ok", theta |-> theta, grad |-> grad,
     gfArgs |-> gfArgs, divisors |-> divisors]

Raise(st, exc, gfArgs) ==
    [st |-> st, status |-> exc, theta |-> <<>>, grad |-> <<>>,
     gfArgs |-> gfArgs, divisors |-> {}]

(***************************************************************************)
(* Classic.__call__                                                        *)
(***************************************************************************)
\* a slip of sign: the step goes up the gradient
ClassicUpdate_Ascent(theta, lr, grad) == VAdd(theta, VScale(lr, grad))

\* theta - learning_rate * grad
ClassicUpdate(theta, lr, grad) == VSub(theta, VScale(lr, grad))

ClassicCall(st, lr, theta, gf, kw) ==
    LET grad == GradFn(gf, theta, kw)
    IN  Return(st, ClassicUpdate(theta, lr, grad), grad, <<GradCall(theta, kw)>>, {})

(***************************************************************************)
(* Momentum.__call__: the gradient is evaluated without the context, and   *)
(* the bare name gamma (no local, no module global, no builtin) raises     *)
(* NameError before self._velocity is assigned.                            *)
(***************************************************************************)
MomentumCall(st, lr, theta, gf, kw) ==
    Raise(st, "NameError", <<GradCall(theta, NoKw)>>)

(***************************************************************************)
(* Nesterov.__call__: the gradient is evaluated at the look-ahead point,   *)
(* without the context; then the bare name gamma raises NameError.         *)
(***************************************************************************)
NesterovCall(st, lr, theta, gf, kw) ==
    LET next_position == VSub(theta, VScale(st.gamma, st.velocity))
    IN  Raise(st, "NameError", <<GradCall(next_position, NoKw)>>)

(***************************************************************************)
(* Adagrad.__call__: self.gradients sums the gradients; np.diag makes Gt a *)
(* square matrix, and broadcasting makes the returned theta one too.       *)
(***************************************************************************)
AdagradCall(st, lr, theta, gf, kw) ==
    LET n == Len(theta)
        grad == GradFn(gf, theta, NoKw)
        gradients == VAdd(st.gradients, grad)
        Gt == Diag(VSquare(gradients))
        denom == [i \in 1..n |-> VSqrtPlus(Gt[i], st.epsilon)]
        step == [i \in 1..n |-> VMul(SDivV(lr, denom[i]), grad)]
        new_theta == [i \in 1..n |-> VSub(theta, step[i])]
    IN  Return([st EXCEPT !.gradients = gradients], new_theta, grad,
               <<GradCall(theta, NoKw)>>, MatrixEntries(denom))

(***************************************************************************)
(* Adadelta.__call__                                                       *)
(***************************************************************************)
AdadeltaCall(st, lr, theta, gf, kw) ==
    LET grad == GradFn(gf, theta, NoKw)
        avg_sqr_gradient == VAdd(VScale(st.gamma, st.avg_sqr_gradient),
                                 VScale(Scale - st.gamma, VSquare(grad)))
        rms_grad == VSqrtPlus(VSquare(avg_sqr_gradient), st.epsilon)
        delta_theta == VMul(SDivV(-lr, rms_grad), grad)
        avg_sqr_delta_theta == VAdd(VScale(st.gamma, st.avg_sqr_delta_theta),
                                    VScale(Scale - st.gamma, VSquare(delta_theta)))
        rms_delta_theta == VSqrtPlus(VSquare(avg_sqr_delta_theta), st.epsilon)
        delta == -Dot(VDiv(rms_delta_theta, rms_grad), grad)
    IN  Return([st EXCEPT !.avg_sqr_gradient = avg_sqr_gradient,
                          !.avg_sqr_delta_theta = avg_sqr_delta_theta],
               VPlus(theta, delta), grad, <<GradCall(theta, NoKw)>>, Range(rms_grad))

(***************************************************************************)
(* RMSprop.__call__                                                        *)
(***************************************************************************)
RMSpropCall(st, lr, theta, gf, kw) ==
    LET grad == GradFn(gf, theta, NoKw)
        avg_sqr_gradient == VAdd(VScale(st.gamma, st.avg_sqr_gradient),
                                 VScale(Lit(1, 10), VSquare(grad)))
        rms_grad == VSqrtPlus(VSquare(avg_sqr_gradient), st.epsilon)
        new_theta == VSub(theta, VMul(SDivV(lr, rms_grad), grad))
    IN  Return([st EXCEPT !.avg_sqr_gradient = avg_sqr_gradient],
               new_theta, grad, <<GradCall(theta, NoKw)>>, Range(rms_grad))

(***************************************************************************)
(* The optimizers with a step counter.  Each starts with self.t += 1; each *)
(* then reads the bare name beta_one, which raises NameError.  Adam and    *)
(* AdaMax have evaluated the gradient by then (without the context), Nadam *)
(* and AMSGrad never evaluate it.                                          *)
(***************************************************************************)
\* a counter that a failing call does not advance
IncrT_Skip(t) == t

\* self.t += 1
IncrT(t) == t + 1

AdamCall(st, lr, theta, gf, kw) ==
    Raise([st EXCEPT !.t = IncrT(st.t)], "NameError", <<GradCall(theta, NoKw)>>)

AdaMaxCall(st, lr, theta, gf, kw) ==
    Raise([st EXCEPT !.t = IncrT(st.t)], "NameError", <<GradCall(theta, NoKw)>>)

NadamCall(st, lr, theta, gf, kw) ==
    Raise([st EXCEPT !.t = IncrT(st.t)], "NameError", <<>>)

AMSGradCall(st, lr, theta, gf, kw) ==
    Raise([st EXCEPT !.t = IncrT(st.t)], "NameError", <<>>)

(***************************************************************************)
(* The optimizer's state machine: an instance is constructed, then called. *)
(***************************************************************************)
NoCall ==
    [status |-> "none", lr |-> 0, thetaIn |-> <<>>, gf |-> "zero", kw |-> NoKw,
     theta |-> <<>>, grad |-> <<>>, gfArgs |-> <<>>, divisors |-> {}]

OptInit ==
    /\ dim \in Dims
    /\ \E kind \in Kinds, gamma \in Gammas, epsilon \in Epsilons :
          opt = NewOpt(kind, gamma, epsilon, dim)
    /\ ncalls = 0
    /\ last = NoCall

\* The caller calls the instance and takes what the call comes to.
Called(r, lr, theta, gf, kw) ==
    /\ opt' = r.st
    /\ ncalls' = ncalls + 1
    /\ last' = [status |-> r.status, lr |-> lr, thetaIn |-> theta, gf |-> gf, kw |-> kw,
                theta |-> r.theta, grad |-> r.grad, gfArgs |-> r.gfArgs,
                divisors |-> r.divisors]
    /\ UNCHANGED <<dim, gsVars, fc>>

CallClassic ==
    /\ opt.kind = "Classic" /\ ncalls < MaxCalls
    /\ \E lr \in LearningRates, theta \in Thetas(dim), gf \in GradFns, kw \in Contexts :
          Called(ClassicCall(opt, lr, theta, gf, kw), lr, theta, gf, kw)

CallMomentum ==
    /\ opt.kind = "Momentum" /\ ncalls < MaxCalls
    /\ \E lr \in LearningRates, theta \in Thetas(dim), gf \in GradFns, kw \in Contexts :
          Called(MomentumCall(opt, lr, theta, gf, kw), lr, theta, gf, kw)

CallNesterov ==
    /\ opt.kind = "Nesterov" /\ ncalls < MaxCalls
    /\ \E lr \in LearningRates, theta \in Thetas(dim), gf \in GradFns, kw \in Contexts :
          Called(NesterovCall(opt, lr, theta, gf, kw), lr, theta, gf, kw)

CallAdagrad ==
    /\ opt.kind = "Adagrad" /\ ncalls < MaxCalls
    /\ \E lr \in LearningRates, theta \in Thetas(dim), gf \in GradFns, kw \in Contexts :
          Called(AdagradCall(opt, lr, theta, gf, kw), lr, theta, gf, kw)

CallAdadelta ==
    /\ opt.kind = "Adadelta" /\ ncalls < MaxCalls
    /\ \E lr \in LearningRates, theta \in Thetas(dim), gf \in GradFns, kw \in Contexts :
          Called(AdadeltaCall(opt, lr, theta, gf, kw), lr, theta, gf, kw)

CallRMSprop ==
    /\ opt.kind = "RMSprop" /\ ncalls < MaxCalls
    /\ \E lr \in LearningRates, theta \in Thetas(dim), gf \in GradFns, kw \in Contexts :
          Called(RMSpropCall(opt, lr, theta, gf, kw), lr, theta, gf, kw)

CallAdam ==
    /\ opt.kind = "Adam" /\ ncalls < MaxCalls
    /\ \E lr \in LearningRates, theta \in Thetas(dim), gf \in GradFns, kw \in Contexts :
          Called(AdamCall(opt, lr, theta, gf, kw), lr, theta, gf, kw)

CallAdaMax ==
    /\ opt.kind = "AdaMax" /\ ncalls < MaxCalls
    /\ \E lr \in LearningRates, theta \in Thetas(dim), gf \in GradFns, kw \in Contexts :
          Called(AdaMaxCall(opt, lr, theta, gf, kw), lr, theta, gf, kw)

CallNadam ==
    /\ opt.kind = "Nadam" /\ ncalls < MaxCalls
    /\ \E lr \in LearningRates, theta \in Thetas(dim), gf \in GradFns, kw \in Contexts :
          Called(NadamCall(opt, lr, theta, gf, kw), lr, theta, gf, kw)

CallAMSGrad ==
    /\ opt.kind = "AMSGrad" /\ ncalls < MaxCalls
    /\ \E lr \in LearningRates, theta \in Thetas(dim), gf \in GradFns, kw \in Contexts :
          Called(AMSGradCall(opt, lr, theta, gf, kw), lr, theta, gf, kw)

OptNext ==
    \/ CallClassic
    \/ CallMomentum
    \/ CallNesterov
    \/ CallAdagrad
    \/ CallAdadelta
    \/ CallRMSprop
    \/ CallAdam
    \/ CallAdaMax
    \/ CallNadam
    \/ CallAMSGrad

\* The scaler while the optimizer's specification runs: not constructed.
GsIdle == gs = [method |-> "none"] /\ nops = 0 /\ gsLast = [op |-> "none"]

OptimizerInit == OptInit /\ GsIdle /\ FcIdle

OptSpec == OptimizerInit /\ [][OptNext]_vars

(***************************************************************************)
(* GradientScaler and NormScaler (utils/data_manager.py).                  *)
(*                                                                         *)
(* Numbers.  The scaler only compares norms, clips, and multiplies or      *)
(* divides a whole array by a norm, so its arithmetic is exact here: an    *)
(* array is [v, num, den], the integer vector v times sqrt(num / den),     *)
(* with num/den in lowest terms; norms are compared by their squares.      *)
(* den = 0 is the array of nan (or of inf) that numpy's division by a zero *)
(* norm gives.                                                             *)
(***************************************************************************)
MaxX == 2
MaxOps == 2

RECURSIVE Gcd(_, _)
Gcd(a, b) == IF b = 0 THEN a ELSE Gcd(b, a % b)

Plain(v) == [v |-> v, num |-> 1, den |-> 1]

Nan(v) == [v |-> v, num |-> 0, den |-> 0]

IsNan(x) == x.den = 0

RECURSIVE SumSqUpTo(_, _)
SumSqUpTo(v, k) == IF k = 0 THEN 0 ELSE SumSqUpTo(v, k - 1) + v[k] * v[k]

SumSq(v) == SumSqUpTo(v, Len(v))

\* x * sqrt(a / b): x times a norm (b = 1) or divided by one (a = 1), a, b >= 0
Rescale(x, a, b) ==
    IF IsNan(x) \/ b = 0 THEN Nan(x.v)
    ELSE IF x.num * a = 0 THEN Plain(Zeros(Len(x.v)))
    ELSE LET g == Gcd(x.num * a, x.den * b)
         IN  [v |-> x.v, num |-> (x.num * a) \div g, den |-> (x.den * b) \div g]

\* np.linalg.norm(x), squared, as the fraction NormSqNum / NormSqDen
NormSqNum(x) == SumSq(x.v) * x.num

NormSqDen(x) == x.den

\* norm(x) < c and norm(x) > c for a scalar c >= 0; both are false of nan
NormBelow(x, c) == ~IsNan(x) /\ NormSqNum(x) < c * c * NormSqDen(x)

NormAbove(x, c) == ~IsNan(x) /\ NormSqNum(x) > c * c * NormSqDen(x)

SameNorm(x, y) ==
    ~IsNan(x) /\ ~IsNan(y) /\ NormSqNum(x) * NormSqDen(y) = NormSqNum(y) * NormSqDen(x)

Min(a, b) == IF a < b THEN a ELSE b

Max(a, b) == IF a > b THEN a ELSE b

\* np.clip(X, lo, hi) of a plain array
Clip(x, lo, hi) == Plain([i \in 1..Len(x.v) |-> Min(Max(x.v[i], lo), hi)])

\* method: 'c' clips (the default), 'n' normalizes
Methods == {"c", "n"}

\* NormScaler.__init__: r_ is None until fit
NewNormScaler(clip_norm) == [clip_norm |-> clip_norm, fitted |-> FALSE, r2 |-> 0]

\* GradientScaler.normalizer_ = None
NoNormalizer == [absent |-> TRUE]

\* NormScaler.fit: r_ = np.linalg.norm(X), kept as its square
NormScalerFit(ns, x) == [ns EXCEPT !.fitted = TRUE, !.r2 = SumSq(x.v)]

\* NormScaler.transform: X / r_ * clip_norm
NormScalerTransform(ns, x) == Rescale(Rescale(x, 1, ns.r2), ns.clip_norm * ns.clip_norm, 1)

\* NormScaler.inverse_transform: X * r_ / clip_norm
NormScalerInverse(ns, x) == Rescale(Rescale(x, ns.r2, 1), 1, ns.clip_norm * ns.clip_norm)

NewGradientScaler(method, lower, upper, clip_norm) ==
    [method |-> method, lower_threshold |-> lower, upper_threshold |-> upper,
     clip_norm |-> clip_norm, normalizer_ |-> NoNormalizer]

GsDone(st, out) == [st |-> st, status |-> "ok", out |-> out]

GsRaise(st, exc, x) == [st |-> st, status |-> exc, out |-> x]

\* GradientScaler.fit
GsFit(st, x) ==
    IF st.method = "n"
    THEN [st EXCEPT !.normalizer_ = NewNormScaler(st.clip_norm)]
    ELSE st

\* a slip of comparison: the thresholds themselves count as out of range
OutOfRange_Strict(st, x) ==
    ~IsNan(x) /\ (~NormAbove(x, st.lower_threshold) \/ ~NormBelow(x, st.upper_threshold))

\* r_x < self.lower_threshold or r_x > self.upper_threshold
OutOfRange(st, x) ==
    NormBelow(x, st.lower_threshold) \/ NormAbove(x, st.upper_threshold)

\* GradientScaler.transform
GsTransform(st, x) ==
    IF OutOfRange(st, x)
    THEN IF st.method = "n"
         THEN IF st.normalizer_ = NoNormalizer
              THEN GsRaise(st, "AttributeError", x)
              ELSE LET ns == NormScalerFit(st.normalizer_, x)
                   IN  GsDone([st EXCEPT !.normalizer_ = ns], NormScalerTransform(ns, x))
         ELSE GsDone(st, Clip(x, st.lower_threshold, st.upper_threshold))
    ELSE GsDone(st, x)

\* GradientScaler.fit_transform
GsFitTransform(st, x) == GsTransform(GsFit(st, x), x)

\* a slip of the guard: a clipping scaler hands X back as its own inverse
GsInverseTransform_ClipIdentity(st, x) ==
    IF st.method = "c" THEN GsDone(st, x)
    ELSE IF st.normalizer_ = NoNormalizer THEN GsRaise(st, "AttributeError", x)
    ELSE IF ~st.normalizer_.fitted THEN GsRaise(st, "TypeError", x)
    ELSE GsDone(st, NormScalerInverse(st.normalizer_, x))

\* GradientScaler.inverse_transform
GsInverseTransform(st, x) ==
    IF st.method = "c" THEN GsRaise(st, "ValueError", x)
    ELSE IF st.normalizer_ = NoNormalizer THEN GsRaise(st, "AttributeError", x)
    ELSE IF ~st.normalizer_.fitted THEN GsRaise(st, "TypeError", x)
    ELSE GsDone(st, NormScalerInverse(st.normalizer_, x))

(***************************************************************************)
(* The scaler's state machine: an instance is constructed, then used.      *)
(***************************************************************************)
\* the thresholds and norms instances are constructed with: lower <= clip_norm <= upper
Lowers == {1, 2}

Uppers == {2}

ClipNorms == {1, 2}

XVals == (-MaxX)..MaxX

\* the numbers of elements of the arrays callers pass
Lens == {1, 2}

\* the arrays callers pass
Xs == UNION {{Plain(v) : v \in [1..n -> XVals]} : n \in Lens}

NoOp == [op |-> "none", X |-> Plain(<<>>), status |-> "ok", out |-> Plain(<<>>),
         roundTrip |-> FALSE, orig |-> Plain(<<>>)]

GsInit ==
    /\ \E method \in Methods, lower \in Lowers, upper \in Uppers, clip_norm \in ClipNorms :
          /\ lower <= clip_norm /\ clip_norm <= upper
          /\ gs = NewGradientScaler(method, lower, upper, clip_norm)
    /\ nops = 0
    /\ gsLast = NoOp

GsDid(op, x, r, roundTrip, orig) ==
    /\ gs' = r.st
    /\ nops' = nops + 1
    /\ gsLast' = [op |-> op, X |-> x, status |-> r.status, out |-> r.out,
                  roundTrip |-> roundTrip, orig |-> orig]
    /\ UNCHANGED <<optVars, fc>>

Fit ==
    /\ nops < MaxOps
    /\ \E x \in Xs : GsDid("fit", x, GsDone(GsFit(gs, x), x), FALSE, x)

Transform ==
    /\ nops < MaxOps
    /\ \E x \in Xs : GsDid("transform", x, GsTransform(gs, x), FALSE, x)

FitTransform ==
    /\ nops < MaxOps
    /\ \E x \in Xs : GsDid("fit_transform", x, GsFitTransform(gs, x), FALSE, x)

InverseTransform ==
    /\ nops < MaxOps
    /\ \E x \in Xs : GsDid("inverse_transform", x, GsInverseTransform(gs, x), FALSE, x)

\* the round trip: inverse_transform of what fit_transform just returned
InverseTransformLast ==
    /\ nops < MaxOps
    /\ gsLast.op = "fit_transform" /\ gsLast.status = "ok"
    /\ GsDid("inverse_transform", gsLast.out, GsInverseTransform(gs, gsLast.out),
             TRUE, gsLast.X)

GsNext ==
    \/ Fit
    \/ Transform
    \/ FitTransform
    \/ InverseTransform
    \/ InverseTransformLast

\* The optimizer while the scaler's specification runs: not constructed.
OptIdle == opt = [kind |-> "none"] /\ dim = 0 /\ ncalls = 0 /\ last = NoCall

ScalerInit == GsInit /\ OptIdle /\ FcIdle

ScalerSpec == ScalerInit /\ [][GsNext]_vars

(***************************************************************************)
(* The stateless functions: data_split, batch_iterator, encode_labels and  *)
(* MinMaxScaler.fit_transform (utils/data_manager.py), and                 *)
(* LogisticRegression.predict (supervised/core/applications.py).           *)
(*                                                                         *)
(* A call is fc = [fn, phase, args, r]: the function, how far the call     *)
(* has come, its arguments and its result.  A dataset is a sequence with   *)
(* one element per sample: X holds the rows (a row of data_split and of    *)
(* batch_iterator is its identifier), y the labels.  Positions count from  *)
(* 1 here and from 0 in numpy.                                             *)
(***************************************************************************)
MaxRows == 3

Calling(fn, args) == [fn |-> fn, phase |-> "args", args |-> args, r |-> [status |-> "none"]]

Returned(r) ==
    /\ fc' = [fc EXCEPT !.phase = "done", !.r = r]
    /\ UNCHANGED <<optVars, gsVars>>

\* s[a:b] of a sequence, for 0 <= a
Slice(s, a, b) == IF a >= Min(b, Len(s)) THEN <<>> ELSE SubSeq(s, a + 1, Min(b, Len(s)))

\* s[idx] for a sequence idx of positions
TakeAt(s, idx) == [j \in 1..Len(idx) |-> s[idx[j]]]

\* the rows 1..n in their order
Rows(n) == [i \in 1..n |-> i]

\* the orders a shuffle can leave n rows in
Perms(n) == {p \in [1..n -> 1..n] : \A i, j \in 1..n : p[i] = p[j] => i = j}

SetMin(S) == CHOOSE x \in S : \A z \in S : x <= z

SetMax(S) == CHOOSE x \in S : \A z \in S : x >= z

\* np.unique: the distinct values, ascending
RECURSIVE Unique(_)
Unique(S) == IF S = {} THEN <<>> ELSE <<SetMin(S)>> \o Unique(S \ {SetMin(S)})

\* how many elements of s are k
Count(s, k) == Cardinality({i \in 1..Len(s) : s[i] = k})

(***************************************************************************)
(* data_split                                                              *)
(***************************************************************************)
\* test_size as the fraction num/den: 0.3 (the default) and 0.5
TestSizes == {[num |-> 3, den |-> 10], [num |-> 1, den |-> 2]}

\* random_state: None, 0 and 1; only 1 is true of `if random_state:`
RandomStates == {"None", "0", "1"}

Labels == {0, 1}

\* the class sizes of the larger label vectors: n0 zeros, then n1 ones
ClassSizes == {10, 11}

\* int(len(y) // (1 / test_size)) in doubles.  1 / 0.5 is 2.0, exactly; 1 / 0.3 is
\* 3.3333333333333335, above 10/3, so the floored quotient of a multiple of 10 is
\* one short of 3n/10 (10 // (1 / 0.3) is 2.0).
FloorDivRecip(n, ts) ==
    LET q == (n * ts.num) \div ts.den
    IN  IF ts.den = 10 /\ n > 0 /\ (n * ts.num) % ts.den = 0 THEN q - 1 ELSE q

\* ceil(n_samples_k * (1 - test_size)); the doubles agree with the fraction here
CeilTrain(n, ts) == (n * (ts.den - ts.num) + ts.den - 1) \div ts.den

\* the call ends in an exception before any partition is assigned
DsRaise(exc) ==
    [status |-> exc, bound |-> {}, X_train |-> <<>>, X_test |-> <<>>,
     y_train |-> <<>>, y_test |-> <<>>, draws |-> 0]

\* a slip of the check: only an X shorter than y is refused
ShapeMismatch_Shorter(X, y) == Len(X) < Len(y)

\* X.shape[0] != y.shape[0]
ShapeMismatch(X, y) == Len(X) # Len(y)

\* a slip of the slices: y is cut one row after X
SplitByPosition_Skewed(X, y, ts, shuffle, p) ==
    LET X_s == IF shuffle THEN TakeAt(X, p) ELSE X
        y_s == IF shuffle THEN TakeAt(y, p) ELSE y
        split_i == Len(y_s) - FloorDivRecip(Len(y_s), ts)
    IN  [status |-> "ok", bound |-> {"X_train", "X_test", "y_train", "y_test"},
         X_train |-> Slice(X_s, 0, split_i), X_test |-> Slice(X_s, split_i, Len(X_s)),
         y_train |-> Slice(y_s, 0, split_i + 1),
         y_test |-> Slice(y_s, split_i + 1, Len(y_s)),
         draws |-> IF shuffle THEN 1 ELSE 0]

\* not stratify: shuffle X and y together (the order p), then cut at split_i
SplitByPosition(X, y, ts, shuffle, p) ==
    LET X_s == IF shuffle THEN TakeAt(X, p) ELSE X
        y_s == IF shuffle THEN TakeAt(y, p) ELSE y
        split_i == Len(y_s) - FloorDivRecip(Len(y_s), ts)
    IN  [status |-> "ok", bound |-> {"X_train", "X_test", "y_train", "y_test"},
         X_train |-> Slice(X_s, 0, split_i), X_test |-> Slice(X_s, split_i, Len(X_s)),
         y_train |-> Slice(y_s, 0, split_i), y_test |-> Slice(y_s, split_i, Len(y_s)),
         draws |-> IF shuffle THEN 1 ELSE 0]

\* the loop over the classes: train_idx (train = TRUE) or test_idx, concatenated.
\* p lists the positions of y in the order the shuffles leave them (Rows, unshuffled).
RECURSIVE ClassIdx(_, _, _, _, _)
ClassIdx(y, ts, p, classes, train) ==
    IF classes = <<>> THEN <<>>
    ELSE LET idx_k == SelectSeq(p, LAMBDA i : y[i] = Head(classes))
             n_samples_k == Len(idx_k)
             n_train_samples_k == CeilTrain(n_samples_k, ts)
             n_test_samples_k == n_samples_k - n_train_samples_k
         IN  (IF train THEN Slice(idx_k, 0, n_train_samples_k)
              ELSE Slice(idx_k, n_train_samples_k, n_train_samples_k + n_test_samples_k))
             \o ClassIdx(y, ts, p, Tail(classes), train)

\* stratify: the indices are split class by class and only y is sliced with them
SplitByClass(y, ts, shuffle, random_state, p) ==
    LET classes == Unique(Range(y))
    IN  IF classes = <<>> THEN DsRaise("ValueError")
        ELSE IF shuffle /\ random_state = "1" THEN DsRaise("AttributeError")
        ELSE [status |-> "ok", bound |-> {"y_train", "y_test"},
              X_train |-> <<>>, X_test |-> <<>>,
              y_train |-> TakeAt(y, ClassIdx(y, ts, p, classes, TRUE)),
              y_test |-> TakeAt(y, ClassIdx(y, ts, p, classes, FALSE)),
              draws |-> IF shuffle THEN Len(classes) ELSE 0]

\* return X_train, X_test, y_train, y_test: a name never assigned cannot be read
ReturnPartitions(loc) ==
    IF loc.status = "ok" /\ loc.bound # {"X_train", "X_test", "y_train", "y_test"}
    THEN [loc EXCEPT !.status = "UnboundLocalError"]
    ELSE loc

DataSplit(X, y, ts, shuffle, stratify, random_state, p) ==
    IF ShapeMismatch(X, y) THEN DsRaise("ValueError")
    ELSE IF ~stratify THEN ReturnPartitions(SplitByPosition(X, y, ts, shuffle, p))
    ELSE ReturnPartitions(SplitByClass(y, ts, shuffle, random_state, p))

DsArgs(X, y, ts, shuffle, stratify, random_state) ==
    Calling("data_split", [X |-> X, y |-> y, test_size |-> ts, shuffle |-> shuffle,
                           stratify |-> stratify, random_state |-> random_state])

\* the calls made: every short X and y, and the larger label vectors unshuffled
DsInit ==
    \E ts \in TestSizes, stratify \in BOOLEAN, random_state \in RandomStates :
       \/ \E nx \in 0..MaxRows, ny \in 0..MaxRows, shuffle \in BOOLEAN :
             \E y \in [1..ny -> Labels] :
                fc = DsArgs(Rows(nx), y, ts, shuffle, stratify, random_state)
       \/ \E n0 \in ClassSizes, n1 \in ClassSizes :
             fc = DsArgs(Rows(n0 + n1), [i \in 1..(n0 + n1) |-> IF i <= n0 THEN 0 ELSE 1],
                         ts, FALSE, stratify, random_state)

DataSplitCall ==
    /\ fc.fn = "data_split" /\ fc.phase = "args"
    /\ LET a == fc.args
       IN  \E p \in IF a.shuffle THEN Perms(Len(a.y)) ELSE {Rows(Len(a.y))} :
              Returned(DataSplit(a.X, a.y, a.test_size, a.shuffle, a.stratify,
                                 a.random_state, p))

(***************************************************************************)
(* batch_iterator, a generator: each next() runs it to its next yield.     *)
(***************************************************************************)
\* batch_size: None (the default) is <<>>, an integer b is <<b>>
BatchSizes == {<<>>} \cup {<<b>> : b \in 1..MaxRows}

\* a slip of the slice: one row too many
BatchOf_Overlap(s, i, batch_size) == Slice(s, i, i + batch_size + 1)

\* s[i:i+batch_size]
BatchOf(s, i, batch_size) == Slice(s, i, i + batch_size)

\* the calls made: y is None (y_given = FALSE) or holds a label per row of X
BiInit ==
    \E n \in 0..MaxRows, batch_size \in BatchSizes, y_given \in BOOLEAN :
       \E y \in IF y_given THEN [1..n -> Labels] ELSE {<<>>} :
          fc = [fn |-> "batch_iterator", phase |-> "created",
                args |-> [X |-> Rows(n), y |-> y, y_given |-> y_given,
                          batch_size |-> batch_size],
                r |-> [status |-> "ok", i |-> 0, batches |-> <<>>]]

\* The first next() computes np.arange(0, n_samples, batch_size), which raises for
\* a step of 0; i walks its values.
NextBatch ==
    /\ fc.fn = "batch_iterator" /\ fc.phase \in {"created", "running"}
    /\ LET a == fc.args
           n_samples == Len(a.X)
           batch_size == IF a.batch_size = <<>> THEN n_samples ELSE a.batch_size[1]
           i == fc.r.i
           batch == [X |-> BatchOf(a.X, i, batch_size),
                     y |-> IF a.y_given THEN BatchOf(a.y, i, batch_size) ELSE <<>>]
       IN  fc' = IF batch_size = 0
                 THEN [fc EXCEPT !.phase = "raised", !.r.status = "ZeroDivisionError"]
                 ELSE IF i >= n_samples THEN [fc EXCEPT !.phase = "done"]
                 ELSE [fc EXCEPT !.phase = "running", !.r.i = i + batch_size,
                                 !.r.batches = Append(@, batch)]
    /\ UNCHANGED <<optVars, gsVars>>

(***************************************************************************)
(* MinMaxScaler.  X is a matrix of integers, a sequence of rows; what      *)
(* transform returns holds fractions [num, den] in lowest terms.           *)
(***************************************************************************)
\* a / b in lowest terms, b # 0
Frac(a, b) ==
    LET g == Gcd(Abs(a), Abs(b))
    IN  [num |-> (Sgn(b) * a) \div g, den |-> Abs(b) \div g]

\* MinMaxScaler.fit: the column minima, maxima and ranges
MinMaxFit(X) ==
    LET col(j) == {X[i][j] : i \in 1..Len(X)}
        cols == 1..Len(X[1])
    IN  [data_min_ |-> [j \in cols |-> SetMin(col(j))],
         data_max_ |-> [j \in cols |-> SetMax(col(j))],
         data_range_ |-> [j \in cols |-> SetMax(col(j)) - SetMin(col(j))]]

\* a slip of the numerator: the minimum is not subtracted
MinMaxTransform_Unshifted(sc, X) ==
    [i \in 1..Len(X) |-> [j \in 1..Len(X[i]) |->
        IF sc.data_range_[j] # 0 THEN Frac(X[i][j], sc.data_range_[j]) ELSE Frac(0, 1)]]

\* MinMaxScaler.transform: (X - data_min_) / data_range_ where data_range_ != 0,
\* and the 0.0 of `out` elsewhere
MinMaxTransform(sc, X) ==
    [i \in 1..Len(X) |-> [j \in 1..Len(X[i]) |->
        IF sc.data_range_[j] # 0
        THEN Frac(X[i][j] - sc.data_min_[j], sc.data_range_[j])
        ELSE Frac(0, 1)]]

\* the entries and the shapes (rows, columns) of the matrices tried
MinMaxVals == {-1, 0, 2}

MinMaxShapes == {<<1, 1>>, <<2, 1>>, <<3, 1>>, <<1, 2>>, <<2, 2>>}

\* the matrix of test_minmax_scaler
MinMaxExample == << <<0, 0, 22>>, <<0, 1, 17>>, <<0, 1, 2>> >>

MmInit ==
    \/ fc = Calling("MinMaxScaler.fit_transform", [X |-> MinMaxExample])
    \/ \E shape \in MinMaxShapes :
          \E X \in [1..shape[1] -> [1..shape[2] -> MinMaxVals]] :
             fc = Calling("MinMaxScaler.fit_transform", [X |-> X])

\* MinMaxScaler().fit_transform(X): fit, then transform with what fit stored
MinMaxFitTransform ==
    /\ fc.fn = "MinMaxScaler.fit_transform" /\ fc.phase = "args"
    /\ LET sc == MinMaxFit(fc.args.X)
       IN  Returned([status |-> "ok", scaler |-> sc, out |-> MinMaxTransform(sc, fc.args.X)])

(***************************************************************************)
(* encode_labels                                                           *)
(***************************************************************************)
\* LabelEncoder.fit_transform: a label's code is its place among the sorted
\* distinct labels, from 0
LabelEncoderFitTransform(y) ==
    LET classes_ == Unique(Range(y))
    IN  [i \in 1..Len(y) |-> (CHOOSE c \in 1..Len(classes_) : classes_[c] = y[i]) - 1]

\* a slip of the test: labels that start at 0 pass for encoded
EncodeLabels_FromZero(y) ==
    IF y # <<>> /\ SetMin(Range(y)) = 0 THEN y ELSE LabelEncoderFitTransform(y)

EncodeLabels(y) ==
    LET classes == Unique(Range(y))
        n_classes == Len(classes)
        binary_classes == [c \in 1..n_classes |-> c - 1]
    IN  IF classes = binary_classes THEN y ELSE LabelEncoderFitTransform(y)

\* the labels of the vectors tried
RawLabels == {-1, 0, 1, 2}

ElInit ==
    \E n \in 0..MaxRows : \E y \in [1..n -> RawLabels] : fc = Calling("encode_labels", [y |-> y])

EncodeLabelsCall ==
    /\ fc.fn = "encode_labels" /\ fc.phase = "args"
    /\ Returned([status |-> "ok", out |-> EncodeLabels(fc.args.y)])

(***************************************************************************)
(* LogisticRegression.predict.  An output is a multiple of 1/Prec.         *)
(***************************************************************************)
Prec == 4

\* what compute_output returns: sigmoid's values, each within [0, 1]
Outputs == UNION {[1..n -> 0..Prec] : n \in 1..2}

\* a slip of the rounding: astype(int) alone, which truncates
RoundHalfEven_Truncate(num, den) == num \div den

\* np.round of num/den, den > 0: the nearest integer, and of two the even one
RoundHalfEven(num, den) ==
    LET q == num \div den
        r == num % den
    IN  IF 2 * r < den THEN q
        ELSE IF 2 * r > den THEN q + 1
        ELSE IF q % 2 = 0 THEN q ELSE q + 1

PrInit == \E o \in Outputs : fc = Calling("predict", [o |-> o])

\* predict: np.round(o).astype(int) of o = compute_output(theta, X)
Predict ==
    /\ fc.fn = "predict" /\ fc.phase = "args"
    /\ Returned([status |-> "ok",
                 out |-> [i \in 1..Len(fc.args.o) |-> RoundHalfEven(fc.args.o[i], Prec)]])

(***************************************************************************)
(* The stateless functions' state machine: one call, run to its end.       *)
(***************************************************************************)
FnNext ==
    \/ DataSplitCall
    \/ NextBatch
    \/ MinMaxFitTransform
    \/ EncodeLabelsCall
    \/ Predict

FnInit == (DsInit \/ BiInit \/ MmInit \/ ElInit \/ PrInit) /\ OptIdle /\ GsIdle

FnSpec == FnInit /\ [][FnNext]_vars

(***************************************************************************)
(* Claims about the optimizers, checked under OptSpec.                     *)
(***************************************************************************)
CalledOnce == last.status # "none"

\* C1: a call of Classic with learning_rate > 0 returns (theta - learning_rate*g, g)
\* with g = gradient_fn(theta, **context), whatever calls were made before, and the
\* instance holds no state that a call could change.
C1_ClassicReturnsDescentStep ==
    (opt.kind = "Classic" /\ CalledOnce /\ last.lr > 0) =>
        LET g == GradFn(last.gf, last.thetaIn, last.kw)
        IN  /\ last.status = "ok"
            /\ last.grad = g
            /\ last.theta = [i \in 1..dim |-> last.thetaIn[i] - FMul(last.lr, g[i])]
            /\ opt = [kind |-> "Classic"]

\* C1's case: a later call of Classic, with a positive rate, that moved theta.
C1_Witness ==
    /\ opt.kind = "Classic" /\ ncalls >= 2 /\ last.lr > 0
    /\ last.kw # NoKw
    /\ last.theta # last.thetaIn

\* C2: the step counter t of Adam, AdaMax, Nadam and AMSGrad is 0 at construction
\* and is the number of calls made on the instance after any sequence of calls.
C2_StepCounterCountsCalls == opt.kind \in TKinds => opt.t = ncalls

\* C2's case: an optimizer with a step counter has been called more than once
\* (every call of it ended in NameError, and still counted).
C2_Witness ==
    opt.kind = "AMSGrad" /\ ncalls >= 2 /\ opt.t >= 2 /\ last.status = "NameError"

\* C3 (as claimed): the first call on a fresh instance of any of the ten optimizers,
\* with learning_rate > 0, completes and returns the gradient it evaluated during
\* that call.
C3_FirstCallCompletes ==
    (ncalls = 1 /\ last.lr > 0) =>
        /\ last.status = "ok"
        /\ Len(last.gfArgs) >= 1
        /\ \E i \in 1..Len(last.gfArgs) :
              last.grad = GradFn(last.gf, last.gfArgs[i].theta, last.gfArgs[i].kw)

\* C5 (as claimed): a call with learning_rate <= 0 is rejected with
\* InvalidHyperparameter, for every optimizer.
C5_NonPositiveRateRejected ==
    (CalledOnce /\ last.lr <= 0) => last.status = "InvalidHyperparameter"

\* C6 (as claimed): every call of Adam, AMSGrad and Adagrad divides the update by
\* a divisor that is not zero.
C6_DivisorNeverZero ==
    (CalledOnce /\ opt.kind \in {"Adam", "AMSGrad", "Adagrad"}) =>
        /\ last.divisors # {}
        /\ 0 \notin last.divisors

\* C7 (as claimed): every gradient evaluation of a call made with context c passes
\* exactly the keyword arguments c, for every optimizer.
C7_ContextForwarded ==
    CalledOnce => \A i \in 1..Len(last.gfArgs) : last.gfArgs[i].kw = last.kw

(***************************************************************************)
(* Claims about the gradient scaler, checked under ScalerSpec.             *)
(***************************************************************************)
InRange(st, x) ==
    /\ ~IsNan(x)
    /\ ~NormBelow(x, st.lower_threshold)
    /\ ~NormAbove(x, st.upper_threshold)

\* C8: transform of an X whose norm lies in [lower_threshold, upper_threshold],
\* bounds included, returns X unchanged and leaves the scaler's state as it was,
\* for either method.
C8_InRangePassesThrough ==
    [][(gsLast'.op = "transform" /\ nops' = nops + 1 /\ InRange(gs, gsLast'.X)) =>
          /\ gsLast'.status = "ok"
          /\ gsLast'.out = gsLast'.X
          /\ gs' = gs]_gsVars

\* C8's case: a normalizing scaler that has normalized before is given an X whose
\* norm is exactly the upper threshold, and one whose entries clipping would change.
C8_Witness ==
    /\ gsLast.op = "transform" /\ gs.method = "n"
    /\ gs.normalizer_ # NoNormalizer /\ gs.normalizer_.fitted
    /\ SumSq(gsLast.X.v) = gs.upper_threshold * gs.upper_threshold
    /\ \E i \in 1..Len(gsLast.X.v) : gsLast.X.v[i] < 0
    /\ gsLast.out = gsLast.X

\* C9 (as claimed): on a normalizing scaler inverse_transform(fit_transform(X))
\* succeeds and has the norm of X, for every X with nonzero norm, whether or not
\* the correction fired.
C9_RoundTripRecoversNorm ==
    (/\ gsLast.op = "inverse_transform" /\ gsLast.roundTrip
     /\ gs.method = "n" /\ SumSq(gsLast.orig.v) # 0) =>
        /\ gsLast.status = "ok"
        /\ SameNorm(gsLast.out, gsLast.orig)

\* C10 (as claimed): what fit_transform returns has its norm within
\* [lower_threshold, upper_threshold], for every X and either method.
C10_FitTransformNormInRange ==
    gsLast.op = "fit_transform" => (gsLast.status = "ok" /\ InRange(gs, gsLast.out))

PositiveMultiple(out, x) ==
    /\ Len(out) = Len(x)
    /\ \A i \in 1..Len(x) : Sgn(out[i]) = Sgn(x[i])
    /\ \A i, j \in 1..Len(x) : out[i] * x[j] = out[j] * x[i]

\* C12 (as claimed): when a clipping scaler's transform corrects X, what it returns
\* is a positive scalar multiple of X, so no coordinate changes its sign.
C12_ClipKeepsDirection ==
    (/\ gsLast.op = "transform" /\ gs.method = "c"
     /\ OutOfRange(gs, gsLast.X)) =>
        /\ gsLast.status = "ok"
        /\ PositiveMultiple(gsLast.out.v, gsLast.X.v)

(***************************************************************************)
(* Claims about the stateless functions, checked under FnSpec.             *)
(***************************************************************************)
SplitDone == fc.fn = "data_split" /\ fc.phase = "done"

\* C13 (as claimed): a stratified data_split with test_size = 0.3 of labels whose
\* classes all have at least 10 samples returns, and each class's share of y_train
\* is within 1% (relative) of its share of y_test.
C13_StratifiedKeepsProportions ==
    (/\ SplitDone /\ fc.args.stratify /\ fc.args.test_size = [num |-> 3, den |-> 10]
     /\ Len(fc.args.X) = Len(fc.args.y) /\ Len(fc.args.y) > 0
     /\ \A k \in Range(fc.args.y) : Count(fc.args.y, k) >= 10) =>
        /\ fc.r.status = "ok"
        /\ \A k \in Range(fc.args.y) :
              LET a == Count(fc.r.y_train, k) * Len(fc.r.y_test)
                  b == Count(fc.r.y_test, k) * Len(fc.r.y_train)
              IN  100 * Abs(a - b) <= b

\* C14 (as claimed): a stratified data_split returns four partitions, and row i of
\* X_train (of X_test) is the row of the sample whose label is y_train[i] (y_test[i]).
C14_StratifiedRowsFollowLabels ==
    (/\ SplitDone /\ fc.args.stratify
     /\ Len(fc.args.X) = Len(fc.args.y) /\ Len(fc.args.y) > 0) =>
        /\ fc.r.status = "ok"
        /\ Len(fc.r.X_train) = Len(fc.r.y_train)
        /\ Len(fc.r.X_test) = Len(fc.r.y_test)
        /\ \A i \in 1..Len(fc.r.y_train) : fc.args.y[fc.r.X_train[i]] = fc.r.y_train[i]
        /\ \A i \in 1..Len(fc.r.y_test) : fc.args.y[fc.r.X_test[i]] = fc.r.y_test[i]

\* C15: when X and y differ in their numbers of rows, data_split raises the shape
\* error (ValueError) before it shuffles or assigns any partition, whatever
\* stratify, shuffle, test_size and random_state are.
C15_MismatchRejectedFirst ==
    (SplitDone /\ Len(fc.args.X) # Len(fc.args.y)) =>
        /\ fc.r.status = "ValueError"
        /\ fc.r.bound = {}
        /\ fc.r.draws = 0

\* C15's case: an X longer than y, in a call that would otherwise shuffle class by
\* class with a random_state.
C15_Witness ==
    /\ SplitDone /\ Len(fc.args.X) > Len(fc.args.y) /\ Len(fc.args.y) > 0
    /\ fc.args.stratify /\ fc.args.shuffle /\ fc.args.random_state = "1"
    /\ fc.r.status = "ValueError"

\* the batches' rows, one after another
RECURSIVE Chained(_)
Chained(batches) ==
    IF batches = <<>> THEN <<>> ELSE Head(batches).X \o Chained(Tail(batches))

\* C16: with an integer batch_size b >= 1, batch j is the rows (j-1)b+1..min(jb, n)
\* of X (and of y), so only the last can have fewer than b rows; the iterator
\* stops after ceil(n/b) batches, which chained together are the rows of X in order.
C16_BatchesPartitionRows ==
    (fc.fn = "batch_iterator" /\ fc.args.batch_size # <<>>) =>
        LET b == fc.args.batch_size[1]
            n == Len(fc.args.X)
            out == fc.r.batches
            count == (n + b - 1) \div b
        IN  /\ fc.phase # "raised"
            /\ Len(out) <= count
            /\ \A j \in 1..Len(out) :
                  /\ out[j].X = SubSeq(fc.args.X, (j - 1) * b + 1, Min(j * b, n))
                  /\ fc.args.y_given =>
                        out[j].y = SubSeq(fc.args.y, (j - 1) * b + 1, Min(j * b, n))
                  /\ Len(out[j].X) = b \/ j = count
                  /\ Len(out[j].X) >= 1
            /\ fc.phase = "done" => (Len(out) = count /\ Chained(out) = fc.args.X)

\* C16's case: three rows in batches of two, with labels, run to the end.
C16_Witness ==
    /\ fc.fn = "batch_iterator" /\ fc.phase = "done" /\ fc.args.y_given
    /\ fc.args.batch_size = <<2>> /\ Len(fc.args.X) = 3
    /\ Len(fc.r.batches) = 2 /\ Len(fc.r.batches[2].y) = 1

\* C17 (as claimed): without a batch_size, batch_iterator yields the whole dataset
\* as one batch and stops, without raising, for every n >= 0.
C17_WholeDatasetOnce ==
    (fc.fn = "batch_iterator" /\ fc.args.batch_size = <<>>) =>
        /\ fc.phase # "raised"
        /\ Len(fc.r.batches) <= 1
        /\ fc.phase = "done" =>
              /\ Len(fc.r.batches) = 1
              /\ fc.r.batches[1].X = fc.args.X
              /\ fc.args.y_given => fc.r.batches[1].y = fc.args.y

\* C18: fit_transform maps x of a column to (x - min) / (max - min): the minimum to
\* 0, the maximum to 1, every value into [0, 1], a constant column to zeros; and the
\* test's matrix to [[0,0,1],[0,1,0.75],[0,1,0]].
C18_MinMaxScalesColumns ==
    (fc.fn = "MinMaxScaler.fit_transform" /\ fc.phase = "done") =>
        LET X == fc.args.X
            out == fc.r.out
        IN  /\ fc.r.status = "ok"
            /\ \A j \in 1..Len(X[1]) :
                  LET mn == SetMin({X[i][j] : i \in 1..Len(X)})
                      mx == SetMax({X[i][j] : i \in 1..Len(X)})
                  IN  \A i \in 1..Len(X) :
                         /\ out[i][j].den > 0
                         /\ out[i][j].num * (mx - mn) = (X[i][j] - mn) * out[i][j].den
                         /\ 0 <= out[i][j].num /\ out[i][j].num <= out[i][j].den
                         /\ X[i][j] = mn => out[i][j].num = 0
                         /\ (X[i][j] = mx /\ mx # mn) => out[i][j].num = out[i][j].den
                         /\ mx = mn => out[i][j].num = 0
            /\ X = MinMaxExample =>
                  out = << <<[num |-> 0, den |-> 1], [num |-> 0, den |-> 1], [num |-> 1, den |-> 1]>>,
                           <<[num |-> 0, den |-> 1], [num |-> 1, den |-> 1], [num |-> 3, den |-> 4]>>,
                           <<[num |-> 0, den |-> 1], [num |-> 1, den |-> 1], [num |-> 0, den |-> 1]>> >>

\* C18's case: the test's matrix, with a constant column and the value 17 that
\* lands strictly inside (0, 1).
C18_Witness ==
    /\ fc.fn = "MinMaxScaler.fit_transform" /\ fc.phase = "done"
    /\ fc.args.X = MinMaxExample
    /\ fc.r.scaler.data_range_ = <<0, 1, 20>>
    /\ fc.r.out[2][3] = [num |-> 3, den |-> 4]

\* C19: the codes encode_labels returns for a y with k distinct labels are exactly
\* 0..k-1, two positions have one code iff they had one label, and a y whose labels
\* already are 0..k-1 is returned as it is.
C19_EncodeLabelsOntoCodes ==
    (fc.fn = "encode_labels" /\ fc.phase = "done") =>
        LET y == fc.args.y
            out == fc.r.out
            k == Cardinality(Range(y))
        IN  /\ fc.r.status = "ok"
            /\ Len(out) = Len(y)
            /\ Range(out) = 0..(k - 1)
            /\ \A i, j \in 1..Len(y) : (out[i] = out[j]) <=> (y[i] = y[j])
            /\ Range(y) = 0..(k - 1) => out = y

\* C19's case: labels that are not 0..k-1 and not in ascending order.
C19_Witness ==
    /\ fc.fn = "encode_labels" /\ fc.phase = "done"
    /\ fc.args.y = <<2, -1, 2>>
    /\ fc.r.out = <<1, 0, 1>>

\* C20: predict gives 1 for an output above 0.5, 0 for one below, and for one of
\* exactly 0.5 always the one label 0; it returns no label but 0 and 1.
C20_PredictThresholdsAtHalf ==
    (fc.fn = "predict" /\ fc.phase = "done") =>
        /\ fc.r.status = "ok"
        /\ Len(fc.r.out) = Len(fc.args.o)
        /\ \A i \in 1..Len(fc.args.o) :
              /\ 2 * fc.args.o[i] > Prec => fc.r.out[i] = 1
              /\ 2 * fc.args.o[i] < Prec => fc.r.out[i] = 0
              /\ 2 * fc.args.o[i] = Prec => fc.r.out[i] = 0
              /\ fc.r.out[i] \in {0, 1}

\* C20's case: an output of exactly 0.5 beside one above it.
C20_Witness ==
    /\ fc.fn = "predict" /\ fc.phase = "done"
    /\ \E i, j \in 1..Len(fc.args.o) :
          /\ 2 * fc.args.o[i] = Prec /\ fc.r.out[i] = 0
          /\ 2 * fc.args.o[j] > Prec /\ fc.args.o[j] < Prec /\ fc.r.out[j] = 1

(***************************************************************************)
(* Claims about the update rules, checked under OptSpec.  A step of the    *)
(* instance is a call: ncalls' = ncalls + 1, with last' what came of it.   *)
(***************************************************************************)
\* beta ** t, t >= 1
RECURSIVE FPow(_, _)
FPow(beta, t) == IF t <= 1 THEN beta ELSE FMul(beta, FPow(beta, t - 1))

\* C21 (as claimed): a fresh Momentum has v = 0, and each call with gradient g sets
\* v to gamma*v + learning_rate*g with the instance's gamma and returns theta - v
\* (so v is the sum of gamma^(n-i) * learning_rate * g_i).
C21_MomentumAccumulatesVelocity ==
    [][/\ (opt.kind = "Momentum" /\ ncalls = 0) => opt.velocity = Zeros(dim)
       /\ (opt.kind = "Momentum" /\ ncalls' = ncalls + 1 /\ last'.lr > 0) =>
             /\ last'.status = "ok"
             /\ last'.grad = GradFn(last'.gf, last'.thetaIn, NoKw)
             /\ opt'.gamma = opt.gamma
             /\ opt'.velocity = VAdd(VScale(opt.gamma, opt.velocity),
                                     VScale(last'.lr, last'.grad))
             /\ last'.theta = VSub(last'.thetaIn, opt'.velocity)]_optVars

\* C22 (as claimed): a call of Nesterov evaluates the gradient once, at
\* theta - gamma*v with v as it stood before the call; then it sets v to
\* gamma*v + learning_rate*g, returns theta - v with the new v, and returns g.
C22_NesterovLooksAhead ==
    [][(opt.kind = "Nesterov" /\ ncalls' = ncalls + 1 /\ last'.lr > 0) =>
          LET ahead == VSub(last'.thetaIn, VScale(opt.gamma, opt.velocity))
          IN  /\ Len(last'.gfArgs) = 1
              /\ last'.gfArgs[1].theta = ahead
              /\ last'.status = "ok"
              /\ last'.grad = GradFn(last'.gf, ahead, NoKw)
              /\ opt'.velocity = VAdd(VScale(opt.gamma, opt.velocity),
                                      VScale(last'.lr, last'.grad))
              /\ last'.theta = VSub(last'.thetaIn, opt'.velocity)]_optVars

\* C23 (as claimed): the G that scales Adagrad's step grows by g^2 in each call, per
\* parameter (so it is the sum of the squared gradients), and the returned theta has
\* the shape of the theta passed in: none of its entries is itself an array.
C23_AdagradSumsSquares ==
    [][(opt.kind = "Adagrad" /\ ncalls' = ncalls + 1 /\ last'.lr > 0) =>
          /\ last'.status = "ok"
          /\ VSquare(opt'.gradients) = VAdd(VSquare(opt.gradients), VSquare(last'.grad))
          /\ Len(last'.theta) = Len(last'.thetaIn)
          /\ \A i \in 1..Len(last'.theta) : last'.theta[i] \notin Seq(Int)]_optVars

\* C24 (as claimed): a call of Adadelta takes its step from the average of squared
\* updates as it stood before the call and from the average of squared gradients
\* itself, then folds that step into the average of squared updates; so neither the
\* returned theta nor the stored averages depend on learning_rate.
C24_AdadeltaIgnoresLearningRate ==
    [][(opt.kind = "Adadelta" /\ ncalls' = ncalls + 1 /\ last'.lr > 0) =>
          LET g == last'.grad
              E == VAdd(VScale(opt.gamma, opt.avg_sqr_gradient),
                        VScale(Scale - opt.gamma, VSquare(g)))
              step == VMul(VDiv(VSqrtPlus(opt.avg_sqr_delta_theta, opt.epsilon),
                                VSqrtPlus(E, opt.epsilon)), g)
          IN  /\ last'.status = "ok"
              /\ \A lr \in LearningRates :
                    LET r == AdadeltaCall(opt, lr, last'.thetaIn, last'.gf, last'.kw)
                    IN  r.theta = last'.theta /\ r.st = opt'
              /\ opt'.avg_sqr_gradient = E
              /\ last'.theta = VSub(last'.thetaIn, step)
              /\ opt'.avg_sqr_delta_theta =
                    VAdd(VScale(opt.gamma, opt.avg_sqr_delta_theta),
                         VScale(Scale - opt.gamma, VSquare(step)))]_optVars

\* C25 (as claimed): a call of RMSprop sets E to gamma*E + (1 - gamma)*g^2 with the
\* instance's gamma, and divides the step by sqrt(E + epsilon), E not squared.
C25_RMSpropWeighsByGamma ==
    [][(opt.kind = "RMSprop" /\ ncalls' = ncalls + 1 /\ last'.lr > 0) =>
          LET E == VAdd(VScale(opt.gamma, opt.avg_sqr_gradient),
                        VScale(Scale - opt.gamma, VSquare(last'.grad)))
          IN  /\ last'.status = "ok"
              /\ opt'.avg_sqr_gradient = E
              /\ last'.divisors = Range(VSqrtPlus(E, opt.epsilon))
              /\ last'.theta =
                    VSub(last'.thetaIn,
                         VMul(SDivV(last'.lr, VSqrtPlus(E, opt.epsilon)), last'.grad))]_optVars

\* C26 (as claimed): a call of Adam increments t, sets m to beta_one*m + (1-beta_one)*g
\* and v to beta_two*v + (1-beta_two)*g^2, corrects both with the exponent t of this
\* call, and returns theta - learning_rate*m_hat/(sqrt(v_hat)+epsilon) and g.
C26_AdamFollowsItsRule ==
    [][(opt.kind = "Adam" /\ ncalls' = ncalls + 1 /\ last'.lr > 0) =>
          LET g == GradFn(last'.gf, last'.thetaIn, NoKw)
              t == opt.t + 1
              m == VAdd(VScale(opt.beta_one, opt.m), VScale(Scale - opt.beta_one, g))
              v == VAdd(VScale(opt.beta_two, opt.v),
                        VScale(Scale - opt.beta_two, VSquare(g)))
              m_hat == [i \in 1..dim |-> FDiv(m[i], Scale - FPow(opt.beta_one, t))]
              v_hat == [i \in 1..dim |-> FDiv(v[i], Scale - FPow(opt.beta_two, t))]
          IN  /\ last'.status = "ok"
              /\ opt'.t = t /\ opt'.m = m /\ opt'.v = v
              /\ last'.grad = g
              /\ last'.theta =
                    VSub(last'.thetaIn,
                         VMul(SDivV(last'.lr, VPlus(VSqrtPlus(v_hat, 0), opt.epsilon)),
                              m_hat))]_optVars

\* C27 (as claimed): an AMSGrad instance holds beta_one and beta_two; every call
\* completes and leaves v_hat the elementwise maximum of its previous value and the
\* new second moment v, so v_hat never decreases and is never below v.
C27_AMSGradKeepsMaximum ==
    [][(opt.kind = "AMSGrad" /\ ncalls' = ncalls + 1 /\ last'.lr > 0) =>
          /\ {"beta_one", "beta_two"} \subseteq DOMAIN opt
          /\ last'.status = "ok"
          /\ opt'.v = VAdd(VScale(opt.beta_two, opt.v),
                           VScale(Scale - opt.beta_two, VSquare(last'.grad)))
          /\ \A i \in 1..dim :
                /\ opt'.v_hat[i] = Max(opt.v_hat[i], opt'.v[i])
                /\ opt'.v_hat[i] >= opt.v_hat[i]
                /\ opt'.v_hat[i] >= opt'.v[i]]_optVars

\* C30 (as claimed): a call that raises leaves every attribute of the instance (t,
\* m, v, the velocity and the other accumulators) as it was before the call.
C30_FailedCallKeepsState ==
    [][(ncalls' = ncalls + 1 /\ last'.status # "ok") => opt' = opt]_optVars

C29_StratifiedCountsPerClass ==
    (/\ SplitDone /\ fc.args.stratify
     /\ Len(fc.args.X) = Len(fc.args.y) /\ Len(fc.args.y) > 0) =>
        /\ fc.r.status = "ok"
        /\ \A k \in Range(fc.args.y) :
              /\ Count(fc.r.y_train, k) = CeilTrain(Count(fc.args.y, k), fc.args.test_size)
              /\ Count(fc.r.y_test, k) = Count(fc.args.y, k) - Count(fc.r.y_train, k)
        /\ Range(fc.r.X_train) \cap Range(fc.r.X_test) = {}
        /\ Range(fc.r.X_train) \cup Range(fc.r.X_test) = Range(fc.args.X)
        /\ Len(fc.r.X_train) + Len(fc.r.X_test) = Len(fc.args.X)

====
